---- MODULE Spec2Model ----
(***************************************************************************)
(* Scrum-poker server: the in-memory store (MemStorage), the REST routes   *)
(* and the WebSocket message handlers of registerRoutes, with the          *)
(* connection registry `clients` and broadcastSessionUpdate.               *)
(*                                                                         *)
(* Every handler is one action: each `await` in the handlers waits on a    *)
(* MemStorage method that has already run to completion, so a handler      *)
(* started by one socket event finishes before the next event is taken.    *)
(* The host branch of leave_session is also given one action per stretch   *)
(* between two awaits (LeaveSessionDispatch .. LeaveReturn), with the      *)
(* suspended handler held in `task`.                                       *)
(* Ids stand for the randomUUID() values: sessions and participants are    *)
(* numbered in creation order, which is also the Map iteration order.      *)
(* Timestamps (createdAt, joinedAt, submittedAt, startedAt, completedAt)   *)
(* and the client-supplied hostId are not read by any handler and are      *)
(* left out; vote history is kept in insertion order.                      *)
(* The browser side is the SocketManager of client/src/lib/socket.ts, with  *)
(* one action per WebSocket event handler and timer callback.              *)
(***************************************************************************)
EXTENDS Integers, Sequences, FiniteSets, TLC

\* ---------------------------------------------------------------- bounds
MaxSessions == 2
MaxParticipants == 3
MaxChannels == 2
MaxVoters == 4
MaxVotes == 4
MaxTripleVotes == 2
MaxHistory == 2
MaxWebSockets == 6

\* ---------------------------------------------------------------- inputs
Pins == {"1111", "2222"}
HostNames == {"Host"}
Names == {"A", "B"}
Labels == {"L1", "L2"}
SessionIds == 1..MaxSessions
ParticipantIds == 1..MaxParticipants
Channels == 1..MaxChannels
VoterIds == 1..MaxVoters

Num(n) == [isNumber |-> TRUE, n |-> n, token |-> ""]
Token(t) == [isNumber |-> FALSE, n |-> 0, token |-> t]
VoteValues == {Num(1), Num(3), Num(5), Token("coffee"), Token("?")}
RoundValues == {Num(1), Num(3), Num(5), Token("coffee")}

\* last is the kind of the request or socket event handled last and out the
\* messages it sent and the sockets it closed, in program order; task is the
\* continuation of a handler that is suspended at an await
VARIABLES sessions, participants, nextParticipant, votes, voteHistory,
          clients, ws, last, out, task

\* the client's SocketManager: socket is the WebSocket it holds (0 for null),
\* webSockets the readyState of every WebSocket it has created, timers the
\* delays of its pending setTimeout calls, and delays the delays of the
\* reconnection attempts made since the last successful open; mounted tells
\* whether the effect of useWebSocket is in place
VARIABLES socket, reconnectAttempts, webSockets, timers, delays, mounted

\* messageHandlers holds the message types a handler is registered for,
\* message the frame that onmessage parsed last and invoked the handler call
\* it made for it
VARIABLES messageHandlers, message, invoked

vars == <<sessions, participants, nextParticipant, votes, voteHistory,
          clients, ws, last, out, task,
          socket, reconnectAttempts, webSockets, timers, delays, mounted,
          messageHandlers, message, invoked>>

store == <<sessions, participants, nextParticipant, votes, voteHistory>>

server == <<store, clients, ws, last, out, task>>

connection == <<socket, reconnectAttempts, webSockets, timers, delays, mounted>>

dispatch == <<messageHandlers, message, invoked>>

socketManager == <<connection, dispatch>>

\* ------------------------------------------------------------ data model
NoVote == [present |-> FALSE, label |-> "", isRevealed |-> FALSE]

\* faulty variant: a round starts out revealed
OpenVoteRevealed(label) == [present |-> TRUE, label |-> label, isRevealed |-> TRUE]

OpenVote(label) == [present |-> TRUE, label |-> label, isRevealed |-> FALSE]

Undefined == 0

\* no handler is suspended
NoTask == [pc |-> "idle", ch |-> 0, sessionId |-> 0, participantId |-> 0, todo |-> <<>>]

\* faulty variant: socket events are taken while a handler is suspended
NeverSuspended == TRUE

\* every await of a handler waits on a MemStorage promise that is already
\* resolved, so its continuations run as microtasks, before the next socket
\* event or request is taken
Idle == task.pc = "idle"

NewSocket == [readyState |-> "OPEN", sessionId |-> Undefined, participantId |-> Undefined]
NoSocket == [readyState |-> "CLOSED", sessionId |-> Undefined, participantId |-> Undefined]

\* output events of the handler that ran last, in program order
Send(ch, msg, sid) ==
    [k |-> "send", ch |-> ch, msg |-> msg, sid |-> sid, open |-> ws[ch].readyState = "OPEN"]
SendTo(ch, msg, sid, isOpen) ==
    [k |-> "send", ch |-> ch, msg |-> msg, sid |-> sid, open |-> isOpen]
CloseEv(ch, isOpen) ==
    [k |-> "close", ch |-> ch, msg |-> "", sid |-> 0, open |-> isOpen]
\* broadcastSessionUpdate has built the session_update message of session sid
Snapshot(sid) ==
    [k |-> "snapshot", ch |-> 0, msg |-> "session_update", sid |-> sid, open |-> TRUE]
Http(status, msg, sid) ==
    [k |-> "http", ch |-> 0, msg |-> msg, sid |-> sid, open |-> status = 200]


\* faulty variant: the lookup does not test that the id is a key of the map
getSessionUnchecked(id) == id

\* ------------------------------------------------------------ MemStorage
getSession(id) == IF id \in 1..Len(sessions) THEN id ELSE Undefined


\* faulty variant: the lookup compares the session id with the PIN and never matches
getSessionByPinById(pin) == Undefined

getSessionByPin(pin) ==
    LET hits == {i \in 1..Len(sessions) : sessions[i].pin = pin}
    IN IF hits = {} THEN Undefined ELSE CHOOSE i \in hits : \A j \in hits : i <= j

updateSession(ss, id, field, value) ==
    IF id \in 1..Len(ss) THEN [ss EXCEPT ![id] = [ss[id] EXCEPT ![field] = value]] ELSE ss

getParticipant(ps, id) == IF id \in DOMAIN ps THEN id ELSE Undefined

getParticipantsBySession(ps, sessionId) ==
    LET InSession(p) == p \in DOMAIN ps /\ ps[p].sessionId = sessionId
    IN SelectSeq([i \in 1..MaxParticipants |-> i], InSession)

addParticipant(ps, id, rec) == [p \in DOMAIN ps \cup {id} |-> IF p = id THEN rec ELSE ps[p]]


\* faulty variant: a participant that is marked disconnected is deleted
updateParticipantOrDelete(ps, id, connected) ==
    IF id \notin DOMAIN ps THEN ps
    ELSE IF connected THEN [ps EXCEPT ![id].isConnected = TRUE]
    ELSE [p \in DOMAIN ps \ {id} |-> ps[p]]

updateParticipant(ps, id, connected) ==
    IF id \in DOMAIN ps THEN [ps EXCEPT ![id].isConnected = connected] ELSE ps

removeParticipant(ps, id) == [p \in DOMAIN ps \ {id} |-> ps[p]]

SameTriple(v, w) ==
    /\ v.participantId = w.participantId
    /\ v.sessionId = w.sessionId
    /\ v.voteLabel = w.voteLabel

RemoveAt(s, i) == SubSeq(s, 1, i - 1) \o SubSeq(s, i + 1, Len(s))


\* faulty variant: the earlier vote of the triple is not removed
submitVoteKeepingOld(vs, vote) == Append(vs, vote)

submitVote(vs, vote) ==
    LET hits == {i \in 1..Len(vs) : SameTriple(vs[i], vote)}
        existingVoteKey == IF hits = {} THEN Undefined
                           ELSE CHOOSE i \in hits : \A j \in hits : i <= j
    IN IF existingVoteKey # Undefined
       THEN Append(RemoveAt(vs, existingVoteKey), vote)
       ELSE Append(vs, vote)

getVotesBySession(vs, sessionId, label) ==
    LET Match(v) == v.sessionId = sessionId /\ v.voteLabel = label
    IN SelectSeq(vs, Match)

clearVotes(vs, sessionId, label) ==
    LET Keep(v) == ~(v.sessionId = sessionId /\ v.voteLabel = label)
    IN SelectSeq(vs, Keep)


\* faulty variant: the entry is not deleted
MapKeep(m, key) == m

MapDelete(m, key) == [x \in DOMAIN m \ {key} |-> m[x]]
MapSet(m, key, value) == [x \in DOMAIN m \cup {key} |-> IF x = key THEN value ELSE m[x]]

\* -------------------------------------------------------------- averages
RECURSIVE SumSeq(_)
SumSeq(s) == IF s = <<>> THEN 0 ELSE Head(s) + SumSeq(Tail(s))

RECURSIVE Gcd(_, _)
Gcd(a, b) == IF b = 0 THEN a ELSE Gcd(b, a % b)

\* the quotient sum / count as a fraction in lowest terms
Quotient(sum, count) ==
    [defined |-> TRUE, num |-> sum \div Gcd(sum, count), den |-> count \div Gcd(sum, count)]
NoAverage == [defined |-> FALSE, num |-> 0, den |-> 1]

IsNumeric(v) == v.voteValue.isNumber


\* faulty variant: the sum of the numeric values is divided by the number of all votes
AverageOverAll(vs) ==
    LET numeric == SelectSeq(vs, IsNumeric)
        numericVotes == [i \in 1..Len(numeric) |-> numeric[i].voteValue.n]
    IN IF Len(numericVotes) > 0
       THEN Quotient(SumSeq(numericVotes), Len(vs))
       ELSE NoAverage

Average(vs) ==
    LET numeric == SelectSeq(vs, IsNumeric)
        numericVotes == [i \in 1..Len(numeric) |-> numeric[i].voteValue.n]
    IN IF Len(numericVotes) > 0
       THEN Quotient(SumSeq(numericVotes), Len(numericVotes))
       ELSE NoAverage

\* ------------------------------------------------ broadcastSessionUpdate
\* the session_update sends for sessionId, computed on the given store and
\* registry; sockets is the readyState table at the time of the broadcast
broadcastSessionUpdate(ss, ps, cl, sockets, sessionId) ==
    IF sessionId \notin 1..Len(ss) THEN <<>>
    ELSE LET Reached(p) == /\ p \in DOMAIN cl
                           /\ sockets[cl[p]].readyState = "OPEN"
             targets == SelectSeq(getParticipantsBySession(ps, sessionId), Reached)
         IN <<Snapshot(sessionId)>> \o
            [i \in 1..Len(targets) |->
                SendTo(cl[targets[i]], "session_update", sessionId, TRUE)]



\* faulty variant: the history of every session is returned
getVoteHistoryAll(vh, sessionId) == vh

getVoteHistory(vh, sessionId) ==
    LET OfSession(h) == h.sessionId = sessionId
    IN SelectSeq(vh, OfSession)

\* the data of the session_update message of an existing session. Every
\* handler broadcasts as its last step, so the message it sends carries the
\* data of the state the handler leaves behind.
updateMessage(sessionId) ==
    LET session == sessions[sessionId]
    IN [session |-> session,
        participants |-> getParticipantsBySession(participants, sessionId),
        votes |-> IF session.currentVote.present
                  THEN getVotesBySession(votes, sessionId, session.currentVote.label)
                  ELSE <<>>,
        voteHistory |-> getVoteHistory(voteHistory, sessionId)]

CloseSocket(sockets, ch) ==
    IF sockets[ch].readyState = "OPEN"
    THEN [sockets EXCEPT ![ch].readyState = "CLOSING"]
    ELSE sockets

\* ------------------------------------------------------- messages as JSON
\* a JSON value as the client reads it: undefined for a property the object
\* does not have, a string, or the data that broadcastSessionUpdate built
\* for session sid
JsUndefined == [t |-> "undefined", s |-> "", sid |-> 0]
JsString(s) == [t |-> "string", s |-> s, sid |-> 0]
JsSnapshot(sid) == [t |-> "object", s |-> "", sid |-> sid]

\* the text of an error envelope
ErrorText(msg) ==
    CASE msg = "error: Session not found" -> "Session not found"
      [] msg = "error: No active vote" -> "No active vote"
      [] msg = "error: Unauthorized" -> "Unauthorized"
      [] OTHER -> "Invalid message format"

\* the object that the server serialised for a send event, by the
\* properties the client reads from it
Frame(ev) ==
    IF ev.msg = "session_update"
    THEN [type |-> JsString("session_update"), data |-> JsSnapshot(ev.sid),
          message |-> JsUndefined, error |-> JsUndefined]
    ELSE IF ev.msg = "session_ended"
    THEN [type |-> JsString("session_ended"), data |-> JsUndefined,
          message |-> JsString("Host ended the session"), error |-> JsUndefined]
    ELSE [type |-> JsUndefined, data |-> JsUndefined,
          message |-> JsUndefined, error |-> JsString(ErrorText(ev.msg))]

\* no frame has been received, and no handler has been called
NoMessage ==
    [type |-> JsUndefined, data |-> JsUndefined,
     message |-> JsUndefined, error |-> JsUndefined]
NoCall == [handler |-> "", data |-> JsUndefined]

\* ------------------------------------------------------------------ Init
Init ==
    /\ sessions = <<>>
    /\ participants = <<>>
    /\ nextParticipant = 1
    /\ votes = <<>>
    /\ voteHistory = <<>>
    /\ clients = <<>>
    /\ ws = [c \in Channels |-> NoSocket]
    /\ last = ""
    /\ out = <<>>
    /\ task = NoTask
    /\ socket = 0
    /\ reconnectAttempts = 0
    /\ webSockets = <<>>
    /\ timers = <<>>
    /\ delays = <<>>
    /\ mounted = FALSE
    /\ messageHandlers = {}
    /\ message = NoMessage
    /\ invoked = NoCall

\* ------------------------------------------------------------ REST routes
\* POST /api/sessions
CreateSession(pin, hostName) ==
    LET existingSession == getSessionByPin(pin)
        id == Len(sessions) + 1
        host == nextParticipant
    IN /\ Idle
       /\ task' = task
       /\ UNCHANGED socketManager
       /\ last' = "create_session"
       /\ IF existingSession # Undefined
          THEN /\ out' = <<Http(400, "Session PIN already exists", 0)>>
               /\ UNCHANGED <<store, clients, ws>>
          ELSE /\ Len(sessions) < MaxSessions
               /\ nextParticipant <= MaxParticipants
               /\ sessions' = Append(sessions,
                                     [pin |-> pin, isActive |-> TRUE, currentVote |-> NoVote])
               /\ participants' = addParticipant(participants, host,
                      [sessionId |-> id, name |-> hostName,
                       isHost |-> TRUE, isConnected |-> FALSE])
               /\ nextParticipant' = nextParticipant + 1
               /\ out' = <<Http(200, "session", id)>>
               /\ UNCHANGED <<votes, voteHistory, clients, ws>>

\* faulty variant: the route answers with any session that has the PIN,
\* ended or not
JoinByPinEnded(pin) ==
    LET session == getSessionByPin(pin)
    IN /\ Idle
       /\ task' = task
       /\ UNCHANGED socketManager
       /\ last' = "join_by_pin"
       /\ out' = IF session = Undefined
                 THEN <<Http(404, "Session not found or inactive", 0)>>
                 ELSE <<Http(200, "sessionId", session)>>
       /\ UNCHANGED <<store, clients, ws>>

\* POST /api/sessions/join
JoinByPin(pin) ==
    LET session == getSessionByPin(pin)
    IN /\ Idle
       /\ task' = task
       /\ UNCHANGED socketManager
       /\ last' = "join_by_pin"
       /\ out' = IF session = Undefined \/ ~sessions[session].isActive
                 THEN <<Http(404, "Session not found or inactive", 0)>>
                 ELSE <<Http(200, "sessionId", session)>>
       /\ UNCHANGED <<store, clients, ws>>


\* ------------------------------------------------------ WebSocket server
\* wss.on('connection'): a new socket object, not yet bound to a participant
Connect(c) ==
    /\ ws[c].readyState = "CLOSED"
    /\ Idle
    /\ task' = task
    /\ UNCHANGED socketManager
    /\ last' = "connection"
    /\ \A p \in DOMAIN clients : clients[p] # c
    /\ ws' = [ws EXCEPT ![c] = NewSocket]
    /\ out' = <<>>
    /\ UNCHANGED <<store, clients>>

\* a socket that delivers client messages: clients send nothing more on a
\* socket once the server has started to close it
Receiving(c) == ws[c].readyState = "OPEN"

FindByName(ps, sessionId, participantName) ==
    LET existingParticipants == getParticipantsBySession(ps, sessionId)
        Named(p) == ps[p].name = participantName
        found == SelectSeq(existingParticipants, Named)
    IN IF found = <<>> THEN Undefined ELSE Head(found)


\* faulty variant: the supplied participantId is ignored and the join always
\* resolves by name
JoinTargetByName(sessionId, participantName, participantId) ==
    LET existing == FindByName(participants, sessionId, participantName)
    IN IF existing # Undefined THEN existing ELSE nextParticipant

\* the participant a join_session resolves to (Undefined when none), given
\* that the session exists
JoinTarget(sessionId, participantName, participantId) ==
    IF participantId # Undefined
    THEN getParticipant(participants, participantId)
    ELSE LET existing == FindByName(participants, sessionId, participantName)
         IN IF existing # Undefined THEN existing ELSE nextParticipant

JoinSession(c, sessionId, participantName, participantId) ==
    /\ Receiving(c)
    /\ Idle
    /\ task' = task
    /\ UNCHANGED socketManager
    /\ last' = "join_session"
    /\ IF getSession(sessionId) = Undefined
       THEN /\ out' = <<Send(c, "error: Session not found", 0)>>
            /\ UNCHANGED <<store, clients, ws>>
       ELSE LET participant == JoinTarget(sessionId, participantName, participantId)
                isNew == participant # Undefined /\ participant \notin DOMAIN participants
                ps == IF participant = Undefined THEN participants
                      ELSE IF isNew
                      THEN addParticipant(participants, participant,
                               [sessionId |-> sessionId, name |-> participantName,
                                isHost |-> FALSE, isConnected |-> TRUE])
                      ELSE updateParticipant(participants, participant, TRUE)
                cl == IF participant = Undefined THEN clients
                      ELSE MapSet(clients, participant, c)
                sockets == IF participant = Undefined THEN ws
                           ELSE [ws EXCEPT ![c].sessionId = sessionId,
                                           ![c].participantId = participant]
            IN /\ isNew => nextParticipant <= MaxParticipants
               /\ participants' = ps
               /\ nextParticipant' = IF isNew THEN nextParticipant + 1 ELSE nextParticipant
               /\ clients' = cl
               /\ ws' = sockets
               /\ out' = broadcastSessionUpdate(sessions, ps, cl, sockets, sessionId)
               /\ UNCHANGED <<sessions, votes, voteHistory>>



\* faulty variant: a round that is open is not overwritten
StartVoteUnlessOpen(c, sessionId, label) ==
    /\ Receiving(c)
    /\ Idle
    /\ task' = task
    /\ UNCHANGED socketManager
    /\ last' = "start_vote"
    /\ sessions' = IF sessionId \in 1..Len(sessions) /\ sessions[sessionId].currentVote.present
                   THEN sessions
                   ELSE updateSession(sessions, sessionId, "currentVote", OpenVote(label))
    /\ out' = broadcastSessionUpdate(sessions', participants, clients, ws, sessionId)
    /\ UNCHANGED <<participants, nextParticipant, votes, voteHistory, clients, ws>>

StartVote(c, sessionId, label) ==
    /\ Receiving(c)
    /\ Idle
    /\ task' = task
    /\ UNCHANGED socketManager
    /\ last' = "start_vote"
    /\ sessions' = updateSession(sessions, sessionId, "currentVote", OpenVote(label))
    /\ out' = broadcastSessionUpdate(sessions', participants, clients, ws, sessionId)
    /\ UNCHANGED <<participants, nextParticipant, votes, voteHistory, clients, ws>>


\* faulty variant: the guard tests the session, not its currentVote
HasSession(sessionId) == getSession(sessionId) # Undefined


\* faulty variant: a round that is already revealed does not count as open
HasUnrevealedVote(sessionId) ==
    /\ getSession(sessionId) # Undefined
    /\ sessions[sessionId].currentVote.present
    /\ ~sessions[sessionId].currentVote.isRevealed

\* session?.currentVote is truthy
HasCurrentVote(sessionId) ==
    /\ getSession(sessionId) # Undefined
    /\ sessions[sessionId].currentVote.present



\* faulty variant: the refusal also closes the sender's socket
NoActiveVoteClosing(c) ==
    /\ out' = <<Send(c, "error: No active vote", 0), CloseEv(c, TRUE)>>
    /\ ws' = CloseSocket(ws, c)
    /\ UNCHANGED <<store, clients>>

NoActiveVote(c) ==
    /\ out' = <<Send(c, "error: No active vote", 0)>>
    /\ UNCHANGED <<store, clients, ws>>

SubmitVote(c, sessionId, participantId, voteValue) ==
    /\ Receiving(c)
    /\ Idle
    /\ task' = task
    /\ UNCHANGED socketManager
    /\ last' = "submit_vote"
    /\ IF ~HasCurrentVote(sessionId)
       THEN NoActiveVote(c)
       ELSE /\ votes' = submitVote(votes,
                   [sessionId |-> sessionId, participantId |-> participantId,
                    voteValue |-> voteValue,
                    voteLabel |-> sessions[sessionId].currentVote.label])
            /\ Len(votes') <= MaxVotes
            /\ out' = broadcastSessionUpdate(sessions, participants, clients, ws, sessionId)
            /\ UNCHANGED <<sessions, participants, nextParticipant, voteHistory, clients, ws>>

RevealVotes(c, sessionId) ==
    /\ Receiving(c)
    /\ Idle
    /\ task' = task
    /\ UNCHANGED socketManager
    /\ last' = "reveal_votes"
    /\ IF ~HasCurrentVote(sessionId)
       THEN NoActiveVote(c)
       ELSE /\ sessions' = updateSession(sessions, sessionId, "currentVote",
                   [sessions[sessionId].currentVote EXCEPT !.isRevealed = TRUE])
            /\ out' = broadcastSessionUpdate(sessions', participants, clients, ws, sessionId)
            /\ UNCHANGED <<participants, nextParticipant, votes, voteHistory, clients, ws>>


\* faulty variant: the history entry is saved whether or not the round was revealed
HistoryAfterResetAlways(sessionId) ==
    LET currentVote == sessions[sessionId].currentVote
        roundVotes == getVotesBySession(votes, sessionId, currentVote.label)
    IN Append(voteHistory,
              [sessionId |-> sessionId, label |-> currentVote.label,
               votes |-> roundVotes, average |-> Average(roundVotes)])


\* faulty variant: the new entry takes the place of the entries saved before
HistoryAfterResetReplacing(sessionId) ==
    LET currentVote == sessions[sessionId].currentVote
        roundVotes == getVotesBySession(votes, sessionId, currentVote.label)
    IN IF currentVote.isRevealed
       THEN <<[sessionId |-> sessionId, label |-> currentVote.label,
               votes |-> roundVotes, average |-> Average(roundVotes)]>>
       ELSE voteHistory

\* the history after the reset of the session's open round
HistoryAfterReset(sessionId) ==
    LET currentVote == sessions[sessionId].currentVote
        roundVotes == getVotesBySession(votes, sessionId, currentVote.label)
    IN IF currentVote.isRevealed
       THEN Append(voteHistory,
                   [sessionId |-> sessionId, label |-> currentVote.label,
                    votes |-> roundVotes, average |-> Average(roundVotes)])
       ELSE voteHistory

ResetVotes(c, sessionId) ==
    /\ Receiving(c)
    /\ Idle
    /\ task' = task
    /\ UNCHANGED socketManager
    /\ last' = "reset_votes"
    /\ IF ~HasCurrentVote(sessionId)
       THEN NoActiveVote(c)
       ELSE /\ voteHistory' = HistoryAfterReset(sessionId)
            /\ Len(voteHistory') <= MaxHistory
            /\ votes' = clearVotes(votes, sessionId, sessions[sessionId].currentVote.label)
            /\ sessions' = updateSession(sessions, sessionId, "currentVote", NoVote)
            /\ out' = broadcastSessionUpdate(sessions', participants, clients, ws, sessionId)
            /\ UNCHANGED <<participants, nextParticipant, clients, ws>>


\* faulty variant: the teardown walks over the connected participants only
TeardownListConnected(ps, sessionId) ==
    LET Connected(p) == ps[p].isConnected
    IN SelectSeq(getParticipantsBySession(ps, sessionId), Connected)

\* the participants the host branch of leave_session walks over, and those
\* of them that have a registry entry
TeardownList(ps, sessionId) == getParticipantsBySession(ps, sessionId)

TeardownEvents(cl, withClient) ==
    [k \in 1..(2 * Len(withClient)) |->
        LET i == (k + 1) \div 2
            ch == cl[withClient[i]]
            stillOpen == /\ ws[ch].readyState = "OPEN"
                         /\ \A j \in 1..(i - 1) : cl[withClient[j]] # ch
        IN IF k % 2 = 1
           THEN SendTo(ch, "session_ended", 0, stillOpen)
           ELSE CloseEv(ch, stillOpen)]


\* faulty variant: any existing participant that leaves counts as the host
IsAnyoneLeaving(participantId) == getParticipant(participants, participantId) # Undefined

IsHostLeaving(participantId) ==
    /\ getParticipant(participants, participantId) # Undefined
    /\ participants[participantId].isHost

LeaveSession(c, sessionId, participantId) ==
    LET ps1 == removeParticipant(participants, participantId)
        cl1 == MapDelete(clients, participantId)
    IN /\ Receiving(c)
       /\ Idle
       /\ task' = task
       /\ UNCHANGED socketManager
       /\ last' = "leave_session"
       /\ nextParticipant' = nextParticipant
       /\ UNCHANGED <<votes, voteHistory>>
       /\ IF IsHostLeaving(participantId)
          THEN LET allParticipants == TeardownList(ps1, sessionId)
                   HasClient(p) == p \in DOMAIN cl1
                   withClient == SelectSeq(allParticipants, HasClient)
                   gone == {allParticipants[i] : i \in 1..Len(allParticipants)}
                   closed == {cl1[withClient[i]] : i \in 1..Len(withClient)}
               IN /\ sessions' = updateSession(sessions, sessionId, "isActive", FALSE)
                  /\ participants' = [p \in DOMAIN ps1 \ gone |-> ps1[p]]
                  /\ clients' = [p \in DOMAIN cl1 \ gone |-> cl1[p]]
                  /\ ws' = [ch \in Channels |->
                               IF ch \in closed THEN CloseSocket(ws, ch)[ch] ELSE ws[ch]]
                  /\ out' = TeardownEvents(cl1, withClient)
          ELSE /\ sessions' = sessions
               /\ participants' = ps1
               /\ clients' = cl1
               /\ ws' = CloseSocket(ws, c)
               /\ out' = <<CloseEv(c, ws[c].readyState = "OPEN")>>
                         \o broadcastSessionUpdate(sessions, ps1, cl1, ws', sessionId)


\* ---- leave_session of a host, one action per stretch between two awaits
\* the message is taken and getParticipant has read the leaving participant
LeaveSessionDispatch(c, sessionId, participantId) ==
    /\ Idle
    /\ Receiving(c)
    /\ IsHostLeaving(participantId)
    /\ last' = "leave_session"
    /\ out' = <<>>
    /\ task' = [pc |-> "removeParticipant", ch |-> c, sessionId |-> sessionId,
                participantId |-> participantId, todo |-> <<>>]
    /\ UNCHANGED <<store, clients, ws>>
    /\ UNCHANGED socketManager

\* storage.removeParticipant(participantId)
LeaveRemoveParticipant ==
    /\ task.pc = "removeParticipant"
    /\ participants' = removeParticipant(participants, task.participantId)
    /\ task' = [task EXCEPT !.pc = "updateSession"]
    /\ UNCHANGED <<sessions, nextParticipant, votes, voteHistory, clients, ws, last, out>>
    /\ UNCHANGED socketManager

\* clients.delete(participantId); storage.updateSession(sessionId, { isActive: false })
LeaveUpdateSession ==
    /\ task.pc = "updateSession"
    /\ clients' = MapDelete(clients, task.participantId)
    /\ sessions' = updateSession(sessions, task.sessionId, "isActive", FALSE)
    /\ task' = [task EXCEPT !.pc = "getParticipantsBySession"]
    /\ UNCHANGED <<participants, nextParticipant, votes, voteHistory, ws, last, out>>
    /\ UNCHANGED socketManager

\* storage.getParticipantsBySession(sessionId)
LeaveGetParticipants ==
    /\ task.pc = "getParticipantsBySession"
    /\ task' = [task EXCEPT !.pc = "disconnect",
                            !.todo = TeardownList(participants, task.sessionId)]
    /\ UNCHANGED <<store, clients, ws, last, out>>
    /\ UNCHANGED socketManager

\* one turn of the loop over allParticipants
LeaveDisconnect ==
    /\ task.pc = "disconnect"
    /\ task.todo # <<>>
    /\ LET participant == Head(task.todo)
           hasClient == participant \in DOMAIN clients
           client == clients[participant]
           isOpen == ws[client].readyState = "OPEN"
       IN /\ out' = IF hasClient
                    THEN out \o <<SendTo(client, "session_ended", 0, isOpen),
                                  CloseEv(client, isOpen)>>
                    ELSE out
          /\ ws' = IF hasClient THEN CloseSocket(ws, client) ELSE ws
          /\ clients' = MapDelete(clients, participant)
          /\ participants' = removeParticipant(participants, participant)
    /\ task' = [task EXCEPT !.todo = Tail(task.todo)]
    /\ UNCHANGED <<sessions, nextParticipant, votes, voteHistory, last>>
    /\ UNCHANGED socketManager

\* the loop is over and the handler returns
LeaveReturn ==
    /\ task.pc = "disconnect"
    /\ task.todo = <<>>
    /\ task' = NoTask
    /\ UNCHANGED <<store, clients, ws, last, out>>
    /\ UNCHANGED socketManager

LeaveSessionResume ==
    \/ LeaveRemoveParticipant
    \/ LeaveUpdateSession
    \/ LeaveGetParticipants
    \/ LeaveDisconnect
    \/ LeaveReturn

\* ---- join_session by name, one action per stretch between two awaits, for
\* two frames that one socket delivers in one chunk: both handlers are
\* started before either is resumed, and they are resumed at their awaits
\* the handler of a join_session{sessionId, participantName} that has called
\* storage.getSession
JoinHandler(sessionId, participantName) ==
    [pc |-> "getSession", sessionId |-> sessionId, participantName |-> participantName,
     session |-> getSession(sessionId), existingParticipants |-> <<>>,
     participant |-> Undefined]

JoinBatchDispatch(c, sessionId, firstName, secondName) ==
    /\ Idle
    /\ Receiving(c)
    /\ last' = "join_session"
    /\ out' = <<>>
    /\ task' = [pc |-> "join_session", ch |-> c, sessionId |-> sessionId,
                participantId |-> Undefined,
                todo |-> <<JoinHandler(sessionId, firstName),
                           JoinHandler(sessionId, secondName)>>]
    /\ UNCHANGED <<store, clients, ws>>
    /\ UNCHANGED socketManager

\* the i-th suspended handler after its stretch: gone when it has returned
JoinContinue(i, handler, done) ==
    LET todo == IF done THEN RemoveAt(task.todo, i)
                ELSE [task.todo EXCEPT ![i] = handler]
    IN IF todo = <<>> THEN NoTask ELSE [task EXCEPT !.todo = todo]

\* after `await storage.getSession`: the refusal, or the call of
\* storage.getParticipantsBySession
JoinGetSession(i) ==
    LET handler == task.todo[i]
    IN /\ handler.pc = "getSession"
       /\ IF handler.session = Undefined
          THEN /\ out' = out \o <<Send(task.ch, "error: Session not found", 0)>>
               /\ task' = JoinContinue(i, handler, TRUE)
          ELSE /\ out' = out
               /\ task' = JoinContinue(i,
                             [handler EXCEPT
                                 !.pc = "getParticipantsBySession",
                                 !.existingParticipants =
                                     getParticipantsBySession(participants, handler.sessionId)],
                             FALSE)
       /\ UNCHANGED <<store, clients, ws, last>>
       /\ UNCHANGED socketManager

\* after `await storage.getParticipantsBySession`: find by name, then the
\* call of storage.updateParticipant or storage.addParticipant
JoinFindByName(i) ==
    LET handler == task.todo[i]
        Named(p) == p \in DOMAIN participants
                    /\ participants[p].name = handler.participantName
        found == SelectSeq(handler.existingParticipants, Named)
    IN /\ handler.pc = "getParticipantsBySession"
       /\ IF found # <<>>
          THEN /\ participants' = updateParticipant(participants, Head(found), TRUE)
               /\ nextParticipant' = nextParticipant
               /\ task' = JoinContinue(i, [handler EXCEPT !.pc = "register",
                                                          !.participant = Head(found)], FALSE)
          ELSE /\ nextParticipant <= MaxParticipants
               /\ participants' = addParticipant(participants, nextParticipant,
                      [sessionId |-> handler.sessionId, name |-> handler.participantName,
                       isHost |-> FALSE, isConnected |-> TRUE])
               /\ nextParticipant' = nextParticipant + 1
               /\ task' = JoinContinue(i, [handler EXCEPT !.pc = "register",
                                                          !.participant = nextParticipant], FALSE)
       /\ UNCHANGED <<sessions, votes, voteHistory, clients, ws, last, out>>
       /\ UNCHANGED socketManager

\* after `await storage.updateParticipant / addParticipant`: the socket is
\* bound and registered, then broadcastSessionUpdate and the return
JoinRegister(i) ==
    LET handler == task.todo[i]
    IN /\ handler.pc = "register"
       /\ ws' = [ws EXCEPT ![task.ch].sessionId = handler.sessionId,
                           ![task.ch].participantId = handler.participant]
       /\ clients' = MapSet(clients, handler.participant, task.ch)
       /\ out' = out \o broadcastSessionUpdate(sessions, participants, clients', ws',
                                               handler.sessionId)
       /\ task' = JoinContinue(i, handler, TRUE)
       /\ UNCHANGED <<store, last>>
       /\ UNCHANGED socketManager

JoinResume ==
    /\ task.pc = "join_session"
    /\ \E i \in 1..Len(task.todo) :
          \/ JoinGetSession(i)
          \/ JoinFindByName(i)
          \/ JoinRegister(i)

\* the guard of remove_participant: the session exists and the socket's
\* participant is a host
Authorized(c, sessionId) ==
    LET requesterParticipant == getParticipant(participants, ws[c].participantId)
    IN /\ getSession(sessionId) # Undefined
       /\ requesterParticipant # Undefined
       /\ participants[requesterParticipant].isHost

RemoveParticipant(c, sessionId, participantId) ==
    /\ Receiving(c)
    /\ Idle
    /\ task' = task
    /\ UNCHANGED socketManager
    /\ last' = "remove_participant"
    /\ IF ~Authorized(c, sessionId)
       THEN /\ out' = <<Send(c, "error: Unauthorized", 0)>>
            /\ UNCHANGED <<store, clients, ws>>
       ELSE LET ps1 == removeParticipant(participants, participantId)
                hasClient == participantId \in DOMAIN clients
                cl1 == MapDelete(clients, participantId)
                ws1 == IF hasClient THEN CloseSocket(ws, clients[participantId]) ELSE ws
                closing == IF hasClient
                           THEN <<CloseEv(clients[participantId],
                                          ws[clients[participantId]].readyState = "OPEN")>>
                           ELSE <<>>
            IN /\ participants' = ps1
               /\ clients' = cl1
               /\ ws' = ws1
               /\ out' = closing \o broadcastSessionUpdate(sessions, ps1, cl1, ws1, sessionId)
               /\ UNCHANGED <<sessions, nextParticipant, votes, voteHistory>>

\* a payload that fails JSON.parse or wsMessageSchema.parse
InvalidMessage(c) ==
    /\ Receiving(c)
    /\ Idle
    /\ task' = task
    /\ UNCHANGED socketManager
    /\ last' = "invalid"
    /\ out' = <<Send(c, "error: Invalid message format", 0)>>
    /\ UNCHANGED <<store, clients, ws>>

\* ws.on('close'): the socket is gone, closed by its client or as the end of
\* a close the server started; its handler runs once
Close(c) ==
    /\ ws[c].readyState # "CLOSED"
    /\ Idle
    /\ task' = task
    /\ UNCHANGED socketManager
    /\ last' = "close"
    /\ ws' = [ws EXCEPT ![c] = NoSocket]
    /\ IF ws[c].participantId # Undefined /\ ws[c].sessionId # Undefined
       THEN /\ participants' = updateParticipant(participants, ws[c].participantId, FALSE)
            /\ clients' = MapDelete(clients, ws[c].participantId)
            /\ out' = broadcastSessionUpdate(sessions, participants', clients', ws',
                                             ws[c].sessionId)
       ELSE /\ UNCHANGED <<participants, clients>>
            /\ out' = <<>>
    /\ UNCHANGED <<sessions, nextParticipant, votes, voteHistory>>

\* ------------------------------------------------- client: SocketManager
maxReconnectAttempts == 5
reconnectDelay == 1000

\* the setTimeout delay of attemptReconnect, with the attempt counter as
\* already incremented
BackoffDelay(attempts) == reconnectDelay * attempts

\* connect(): a new WebSocket, held in this.socket
connect ==
    /\ Len(webSockets) < MaxWebSockets
    /\ webSockets' = Append(webSockets, "CONNECTING")
    /\ socket' = Len(webSockets) + 1

\* the Session page is shown: the effect of useWebSocket calls
\* socketManager.connect()
Mount ==
    /\ ~mounted
    /\ mounted' = TRUE
    /\ connect
    /\ UNCHANGED <<reconnectAttempts, timers, delays>>
    /\ UNCHANGED dispatch
    /\ UNCHANGED server

\* socket.onopen of the k-th WebSocket
onopen(k) ==
    /\ k \in 1..Len(webSockets)
    /\ webSockets[k] = "CONNECTING"
    /\ webSockets' = [webSockets EXCEPT ![k] = "OPEN"]
    /\ reconnectAttempts' = 0
    /\ delays' = <<>>
    /\ UNCHANGED <<socket, timers, mounted>>
    /\ UNCHANGED dispatch
    /\ UNCHANGED server

\* variant of onclose whose attemptReconnect has no limit
oncloseUnlimited(k) ==
    /\ k \in 1..Len(webSockets)
    /\ webSockets[k] # "CLOSED"
    /\ webSockets' = [webSockets EXCEPT ![k] = "CLOSED"]
    /\ socket' = 0
    /\ reconnectAttempts' = reconnectAttempts + 1
    /\ timers' = Append(timers, BackoffDelay(reconnectAttempts'))
    /\ delays' = Append(delays, BackoffDelay(reconnectAttempts'))
    /\ UNCHANGED mounted
    /\ UNCHANGED dispatch
    /\ UNCHANGED server

\* socket.onclose of the k-th WebSocket: the connection failed (after
\* onerror, which only rejects the promise of connect), was lost, or the
\* close that disconnect() started is complete; then attemptReconnect()
onclose(k) ==
    /\ k \in 1..Len(webSockets)
    /\ webSockets[k] # "CLOSED"
    /\ webSockets' = [webSockets EXCEPT ![k] = "CLOSED"]
    /\ socket' = 0
    /\ IF reconnectAttempts < maxReconnectAttempts
       THEN /\ reconnectAttempts' = reconnectAttempts + 1
            /\ timers' = Append(timers, BackoffDelay(reconnectAttempts'))
            /\ delays' = Append(delays, BackoffDelay(reconnectAttempts'))
       ELSE UNCHANGED <<reconnectAttempts, timers, delays>>
    /\ UNCHANGED mounted
    /\ UNCHANGED dispatch
    /\ UNCHANGED server

\* the callback of the i-th pending setTimeout of attemptReconnect
timeout(i) ==
    /\ i \in 1..Len(timers)
    /\ timers' = RemoveAt(timers, i)
    /\ connect
    /\ UNCHANGED <<reconnectAttempts, delays, mounted>>
    /\ UNCHANGED dispatch
    /\ UNCHANGED server

\* disconnect()
disconnect ==
    IF socket # 0
    THEN /\ webSockets' = [webSockets EXCEPT ![socket] =
                              IF @ = "CLOSED" THEN @ ELSE "CLOSING"]
         /\ socket' = 0
    ELSE UNCHANGED <<socket, webSockets>>

\* the Session page is left: the cleanup of the effect calls
\* socketManager.disconnect()
Unmount ==
    /\ mounted
    /\ mounted' = FALSE
    /\ disconnect
    /\ UNCHANGED <<reconnectAttempts, timers, delays>>
    /\ UNCHANGED dispatch
    /\ UNCHANGED server

\* the handlers that the effect of useWebSocket registers once connect()
\* has resolved
initHandlers ==
    /\ \E k \in 1..Len(webSockets) : webSockets[k] = "OPEN"
    /\ messageHandlers' = messageHandlers \cup {"session_update", "error", "session_ended"}
    /\ UNCHANGED <<message, invoked>>
    /\ UNCHANGED connection
    /\ UNCHANGED server

\* messageHandlers.get(type): a frame without a type has no handler
HandlerOf(handlers, type) ==
    IF type.t = "string" /\ type.s \in handlers THEN type.s ELSE ""

\* socket.onmessage for the i-th event of the handler that ran last, a frame
\* sent on an open socket: the handler registered for message.type, if there
\* is one, is called with message.data
onmessage(i) ==
    LET frame == Frame(out[i])
        handler == HandlerOf(messageHandlers, frame.type)
    IN /\ Idle
       /\ i \in 1..Len(out)
       /\ out[i].k = "send"
       /\ out[i].open
       /\ message' = frame
       /\ invoked' = IF handler # ""
                     THEN [handler |-> handler, data |-> frame.data]
                     ELSE NoCall
       /\ UNCHANGED messageHandlers
       /\ UNCHANGED connection
       /\ UNCHANGED server

\* ------------------------------------------------------- specifications
\* socket events and the membership messages; a join that names a
\* participant id resolves by the id alone, so its name is held fixed
Membership(chans, names) ==
    \/ \E c \in chans : Connect(c)
    \/ \E c \in chans, s \in SessionIds, n \in names : JoinSession(c, s, n, Undefined)
    \/ \E c \in chans, s \in SessionIds, p \in ParticipantIds :
          JoinSession(c, s, "A", p)
    \/ \E c \in chans, s \in SessionIds, p \in ParticipantIds : LeaveSession(c, s, p)
    \/ \E c \in chans, s \in SessionIds, p \in ParticipantIds : RemoveParticipant(c, s, p)
    \/ \E c \in chans : Close(c)

\* the messages of a voting round
Round(chans, labels, voters, values) ==
    \/ \E c \in chans, s \in SessionIds, l \in labels : StartVote(c, s, l)
    \/ \E c \in chans, s \in SessionIds, p \in voters, v \in values :
          SubmitVote(c, s, p, v)
    \/ \E c \in chans, s \in SessionIds : RevealVotes(c, s)
    \/ \E c \in chans, s \in SessionIds : ResetVotes(c, s)

\* one session with its host and one member, a round, and a browser that
\* receives what the server sends
NextDispatch ==
    \/ sessions = <<>> /\ CreateSession("1111", "Host")
    \/ \E c \in Channels : Connect(c)
    \/ \E c \in Channels, s \in {1, 2}, p \in {Undefined, 1} : JoinSession(c, s, "A", p)
    \/ \E c \in Channels : StartVote(c, 1, "L1")
    \/ \E c \in Channels : SubmitVote(c, 1, ws[c].participantId, Num(1))
    \/ \E c \in Channels : RevealVotes(c, 1)
    \/ \E c \in Channels, p \in ParticipantIds : LeaveSession(c, 1, p)
    \/ Mount
    \/ \E k \in 1..Len(webSockets) : onopen(k)
    \/ initHandlers
    \/ \E i \in 1..Len(out) : onmessage(i)
SpecDispatch == Init /\ [][NextDispatch]_vars

\* the whole server
Next ==
    \/ \E pin \in Pins, hostName \in HostNames : CreateSession(pin, hostName)
    \/ \E pin \in Pins : JoinByPin(pin)
    \/ \E c \in Channels : InvalidMessage(c)
    \/ Membership(Channels, Names)
    \/ Round(Channels, Labels, VoterIds, VoteValues)
Spec == Init /\ [][Next]_vars

\* one session, its members on several sockets
NextMembers ==
    \/ \E hostName \in HostNames : CreateSession("1111", hostName)
    \/ Membership(Channels, Names)
SpecMembers == Init /\ [][NextMembers]_vars

\* several sessions with rounds opened, every message sent over one socket
NextSessions ==
    \/ \E pin \in Pins, hostName \in HostNames : CreateSession(pin, hostName)
    \/ Membership({1}, Names)
    \/ \E s \in SessionIds : StartVote(1, s, "L1")
SpecSessions == Init /\ [][NextSessions]_vars

\* the rounds of one session up to its first history entry, with up to
\* MaxVotes votes of the card values 1, 3, 5 and coffee
NextRound ==
    \/ \E hostName \in HostNames : sessions = <<>> /\ CreateSession("1111", hostName)
    \/ Connect(1)
    \/ \E s \in SessionIds : voteHistory = <<>> /\ StartVote(1, s, "L1")
    \/ \E s \in SessionIds, p \in VoterIds, v \in RoundValues :
          voteHistory = <<>> /\ SubmitVote(1, s, p, v)
    \/ \E s \in SessionIds : voteHistory = <<>> /\ RevealVotes(1, s)
    \/ \E s \in SessionIds : voteHistory = <<>> /\ ResetVotes(1, s)
SpecRound == Init /\ [][NextRound]_vars

\* rounds under two labels in several sessions, with few votes in the store
NextVotes ==
    \/ \E pin \in Pins, hostName \in HostNames : CreateSession(pin, hostName)
    \/ Connect(1)
    \/ \E s \in SessionIds, l \in Labels : voteHistory = <<>> /\ StartVote(1, s, l)
    \/ \E s \in SessionIds, p \in {1, 2}, v \in {Num(1), Num(3)} :
          /\ voteHistory = <<>>
          /\ SubmitVote(1, s, p, v)
          /\ Len(votes') <= MaxTripleVotes
    \/ \E s \in SessionIds : voteHistory = <<>> /\ RevealVotes(1, s)
    \/ \E s \in SessionIds : voteHistory = <<>> /\ ResetVotes(1, s)
SpecVotes == Init /\ [][NextVotes]_vars


\* one session with its members and its rounds, every message on one socket
NextLifecycle ==
    \/ \E hostName \in HostNames : sessions = <<>> /\ CreateSession("1111", hostName)
    \/ Membership({1}, {"A"})
    \/ Round({1}, {"L1"}, {1, 2}, {Num(1)})
SpecLifecycle == Init /\ [][NextLifecycle]_vars


\* one session, its members on several sockets, the host's leave_session
\* taken one stretch at a time
NextTeardown ==
    \/ \E hostName \in HostNames : sessions = <<>> /\ CreateSession("1111", hostName)
    \/ \E c \in Channels : Connect(c)
    \/ \E c \in Channels, s \in SessionIds, n \in Names : JoinSession(c, s, n, Undefined)
    \/ \E c \in Channels, s \in SessionIds, p \in ParticipantIds : JoinSession(c, s, "A", p)
    \/ \E c \in Channels, s \in SessionIds, p \in ParticipantIds :
          ~IsHostLeaving(p) /\ LeaveSession(c, s, p)
    \/ \E c \in Channels, s \in SessionIds, p \in ParticipantIds :
          LeaveSessionDispatch(c, s, p)
    \/ LeaveRemoveParticipant
    \/ LeaveUpdateSession
    \/ LeaveGetParticipants
    \/ LeaveDisconnect
    \/ LeaveReturn
    \/ \E c \in Channels, s \in SessionIds, p \in ParticipantIds : RemoveParticipant(c, s, p)
    \/ \E c \in Channels : Close(c)
SpecTeardown == Init /\ [][NextTeardown]_vars


\* one session whose host joins on socket 1 and drives the rounds and whose
\* member A joins on socket 2; each submits its own votes on its own socket
NextOwnVotes ==
    \/ \E hostName \in HostNames : sessions = <<>> /\ CreateSession("1111", hostName)
    \/ \E c \in Channels : Connect(c)
    \/ \E s \in SessionIds : JoinSession(1, s, "A", 1)
    \/ \E s \in SessionIds : JoinSession(2, s, "A", Undefined)
    \/ \E s \in SessionIds : StartVote(1, s, "L1")
    \/ \E c \in Channels, s \in SessionIds, v \in {Num(1), Num(3)} :
          /\ ws[c].participantId # Undefined
          /\ SubmitVote(c, s, ws[c].participantId, v)
    \/ \E s \in SessionIds : RevealVotes(1, s)
    \/ \E s \in SessionIds : ResetVotes(1, s)
SpecOwnVotes == Init /\ [][NextOwnVotes]_vars


\* sessions created under both PINs and ended by their hosts, looked up by PIN
NextPins ==
    \/ \E pin \in Pins, hostName \in HostNames : CreateSession(pin, hostName)
    \/ \E pin \in Pins : JoinByPin(pin)
    \/ Connect(1)
    \/ \E s \in SessionIds, n \in Names : JoinSession(1, s, n, Undefined)
    \/ \E s \in SessionIds, p \in ParticipantIds : LeaveSession(1, s, p)
    \/ Close(1)
SpecPins == Init /\ [][NextPins]_vars


\* two sessions with members, rounds (under two labels in session 1) and
\* history entries, every message on one socket that joins as the member A
\* of either session
NextUpdates ==
    \/ \E pin \in Pins, hostName \in HostNames : CreateSession(pin, hostName)
    \/ Connect(1)
    \/ \E s \in SessionIds : JoinSession(1, s, "A", Undefined)
    \/ \E l \in Labels : StartVote(1, 1, l)
    \/ StartVote(1, 2, "L1")
    \/ \E s \in SessionIds :
          /\ ws[1].participantId # Undefined
          /\ SubmitVote(1, s, ws[1].participantId, Num(1))
          /\ Len(votes') <= MaxTripleVotes
    \/ \E s \in SessionIds : RevealVotes(1, s)
    \/ \E s \in SessionIds : ResetVotes(1, s)
SpecUpdates == Init /\ [][NextUpdates]_vars

\* the SocketManager of one browser tab
NextClient ==
    \/ Mount
    \/ \E k \in 1..MaxWebSockets : onopen(k)
    \/ \E k \in 1..MaxWebSockets : onclose(k)
    \/ \E i \in 1..MaxWebSockets : timeout(i)
    \/ Unmount
SpecClient == Init /\ [][NextClient]_vars

\* sessions whose members join by name, one frame at a time or two frames
\* in one chunk of one socket; "Host" is also the name of the hosts
JoinNames == {"A", "Host"}

NextJoins ==
    \/ \E pin \in Pins, hostName \in HostNames : CreateSession(pin, hostName)
    \/ \E c \in Channels : Connect(c)
    \/ \E c \in Channels, s \in SessionIds, n \in JoinNames : JoinSession(c, s, n, Undefined)
    \/ \E c \in Channels, s \in SessionIds, n, m \in JoinNames : JoinBatchDispatch(c, s, n, m)
    \/ JoinResume
    \/ \E c \in Channels : Close(c)
SpecJoins == Init /\ [][NextJoins]_vars

\* ================================================================ claims
Sends(msg, sid) ==
    {i \in 1..Len(out) : out[i].k = "send" /\ out[i].msg = msg /\ out[i].sid = sid}

ParticipantsOf(ps, S) == {p \in DOMAIN ps : ps[p].sessionId = S}

\* ---------------------------------------------------------------- C1
C1_UniqueActivePin ==
    \A i, j \in 1..Len(sessions) :
        (i # j /\ sessions[i].isActive /\ sessions[j].isActive)
            => sessions[i].pin # sessions[j].pin

C1_Refused ==
    \A pin \in Pins, hostName \in HostNames :
        (/\ CreateSession(pin, hostName)
         /\ \E i \in 1..Len(sessions) : sessions[i].isActive /\ sessions[i].pin = pin)
        => /\ sessions' = sessions
           /\ participants' = participants
           /\ out' = <<Http(400, "Session PIN already exists", 0)>>

\* C1: no two active sessions ever share a PIN, and a create-session request
\* for a PIN that an active session holds is refused with status 400 and
\* creates neither a session nor a participant.
C1_PinUnique == []C1_UniqueActivePin /\ [][C1_Refused]_vars

C1_Witness ==
    /\ last = "create_session"
    /\ out = <<Http(400, "Session PIN already exists", 0)>>
    /\ Len(sessions) = 2
    /\ sessions[1].isActive /\ sessions[2].isActive

\* ---------------------------------------------------------------- C2
C2_OnePerTriple ==
    \A i, j \in 1..Len(votes) : i # j => ~SameTriple(votes[i], votes[j])

C2_LastValueStored ==
    \A c \in Channels, S \in SessionIds, p \in VoterIds, v \in VoteValues :
        (/\ SubmitVote(c, S, p, v)
         /\ S \in 1..Len(sessions)
         /\ sessions[S].currentVote.present)
        => LET stored == {i \in 1..Len(votes') :
                             /\ votes'[i].participantId = p
                             /\ votes'[i].sessionId = S
                             /\ votes'[i].voteLabel = sessions[S].currentVote.label}
           IN /\ Cardinality(stored) = 1
              /\ \A i \in stored : votes'[i].voteValue = v

\* C2: the vote store never holds two votes of one (participantId,
\* sessionId, voteLabel) triple, and after an accepted submit_vote the triple
\* has exactly one vote, carrying the value just submitted.
C2_AtMostOneVote == []C2_OnePerTriple /\ [][C2_LastValueStored]_vars

C2_Witness ==
    /\ last = "submit_vote"
    /\ Len(out) > 0 /\ out[1].k = "snapshot"
    /\ Len(votes) = 2
    /\ votes[1].participantId = votes[2].participantId
    /\ votes[1].sessionId = votes[2].sessionId
    /\ votes[1].voteLabel # votes[2].voteLabel

\* ---------------------------------------------------------------- C3
\* the live socket of participant p of S: open, joined to S as p, and the
\* only socket that is joined as p
LiveChannel(ch, S, p) ==
    /\ ws[ch].readyState = "OPEN"
    /\ ws[ch].sessionId = S
    /\ ws[ch].participantId = p
    /\ \A other \in Channels \ {ch} : ws[other].participantId # p

\* socket ch reaches participant p of S: p joined S on it, or it is the
\* socket the registry holds for p
Serves(ch, S, p) ==
    \/ LiveChannel(ch, S, p)
    \/ p \in DOMAIN clients /\ clients[p] = ch

\* C3: every session_update built for session S is sent to each current
\* participant of S that has a live (open, joined) socket, and to no socket
\* that is not joined to S as one of its current participants.
C3_BroadcastReach ==
    \A S \in SessionIds :
        (\E i \in 1..Len(out) : out[i].k = "snapshot" /\ out[i].sid = S)
        => /\ \A p \in ParticipantsOf(participants, S) :
                 (\E ch \in Channels : LiveChannel(ch, S, p))
                 => \E i \in Sends("session_update", S) : Serves(out[i].ch, S, p)
           /\ \A i \in Sends("session_update", S) :
                 \E p \in ParticipantsOf(participants, S) : Serves(out[i].ch, S, p)

\* ---------------------------------------------------------------- C4
HostOf(S, H) ==
    /\ H \in DOMAIN participants
    /\ participants[H].isHost
    /\ participants[H].sessionId = S

C4_HostLeave ==
    \A c \in Channels, S \in SessionIds, H \in ParticipantIds :
        (LeaveSession(c, S, H) /\ HostOf(S, H))
        => /\ ~sessions'[S].isActive
           /\ ParticipantsOf(participants', S) = {}
           /\ \A p \in (ParticipantsOf(participants, S) \ {H}) \cap DOMAIN clients :
                 /\ p \notin DOMAIN clients'
                 /\ ws'[clients[p]].readyState # "OPEN"
                 /\ \E i \in 1..Len(out') :
                       /\ out'[i].k = "send"
                       /\ out'[i].msg = "session_ended"
                       /\ out'[i].ch = clients[p]
                       /\ \A j \in 1..(i - 1) :
                             ~(out'[j].k = "close" /\ out'[j].ch = clients[p])
                       /\ \E j \in (i + 1)..Len(out') :
                             out'[j].k = "close" /\ out'[j].ch = clients[p]

\* C4: when the host of S leaves S, S is inactive afterwards, S has no
\* participant record, and every other participant of S that had a registry
\* entry was sent session_ended before its socket was closed, and has lost
\* its registry entry.
C4_HostTeardown == [][C4_HostLeave]_vars

C4_Witness ==
    /\ last = "leave_session"
    /\ Len(sessions) = 1 /\ ~sessions[1].isActive
    /\ DOMAIN participants = {}
    /\ nextParticipant = 4
    /\ Len(out) = 4
    /\ out[1].msg = "session_ended" /\ out[1].open /\ out[2].k = "close"
    /\ out[3].msg = "session_ended" /\ out[3].open /\ out[4].k = "close"
    /\ out[1].ch # out[3].ch

\* ---------------------------------------------------------------- C5
C5_NonHostLeave ==
    \A c \in Channels, S \in SessionIds, P \in ParticipantIds :
        (/\ LeaveSession(c, S, P)
         /\ P \in ParticipantsOf(participants, S)
         /\ ~participants[P].isHost)
        => /\ participants' = [p \in DOMAIN participants \ {P} |-> participants[p]]
           /\ clients' = [p \in DOMAIN clients \ {P} |-> clients[p]]
           /\ sessions' = sessions

\* C5: a leave_session of a non-host participant P of S removes P's record
\* and P's registry entry and nothing else: the other participant records,
\* the other registry entries and every session (isActive, currentVote)
\* are unchanged.
C5_LeaveFrame == [][C5_NonHostLeave]_vars

C5_Witness ==
    /\ last = "leave_session"
    /\ Len(out) > 0 /\ out[1].k = "close"
    /\ Len(sessions) = 2
    /\ sessions[1].isActive /\ sessions[1].currentVote.present
    /\ DOMAIN participants = {1, 2}
    /\ nextParticipant = 4

\* ---------------------------------------------------------------- C6
C6_Refusal ==
    \A c \in Channels, S \in SessionIds, T \in ParticipantIds :
        (/\ RemoveParticipant(c, S, T)
         /\ ~HostOf(S, ws[c].participantId))
        => /\ participants' = participants
           /\ clients' = clients
           /\ out' = <<Send(c, "error: Unauthorized", 0)>>

\* C6: remove_participant{S, T} sent on a socket that is not bound to the
\* host of session S is refused with Unauthorized and changes no participant
\* record and no registry entry.
C6_HostOfSessionOnly == [][C6_Refusal]_vars

\* ---------------------------------------------------------------- C7
\* C7: every active session has exactly one participant with isHost=true.
C7_OneHost ==
    \A S \in 1..Len(sessions) :
        sessions[S].isActive
        => Cardinality({p \in ParticipantsOf(participants, S) : participants[p].isHost}) = 1

\* ---------------------------------------------------------------- C8
\* the votes of the store cast in session S under the given label, in order
VotesOfRound(S, label) ==
    LET idx == {i \in 1..Len(votes) :
                   votes[i].sessionId = S /\ votes[i].voteLabel = label}
        Nth(k) == CHOOSE i \in idx : Cardinality({j \in idx : j <= i}) = k
    IN [k \in 1..Cardinality(idx) |-> votes[Nth(k)]]

RECURSIVE NumericSum(_)
NumericSum(vs) ==
    IF vs = <<>> THEN 0
    ELSE (IF Head(vs).voteValue.isNumber THEN Head(vs).voteValue.n ELSE 0)
         + NumericSum(Tail(vs))

NumericCount(vs) == Cardinality({i \in 1..Len(vs) : vs[i].voteValue.isNumber})

ValuesOf(vs) == {vs[i].voteValue : i \in 1..Len(vs)}

C8_ResetRevealed ==
    \A c \in Channels, S \in SessionIds :
        (/\ ResetVotes(c, S)
         /\ S \in 1..Len(sessions)
         /\ sessions[S].currentVote.present
         /\ sessions[S].currentVote.isRevealed)
        => LET round == VotesOfRound(S, sessions[S].currentVote.label)
               entry == voteHistory'[Len(voteHistory')]
           IN /\ Len(voteHistory') = Len(voteHistory) + 1
              /\ SubSeq(voteHistory', 1, Len(voteHistory)) = voteHistory
              /\ entry.sessionId = S
              /\ entry.label = sessions[S].currentVote.label
              /\ entry.votes = round
              /\ entry.average.defined = (NumericCount(round) > 0)
              /\ entry.average.defined =>
                    entry.average.num * NumericCount(round)
                        = NumericSum(round) * entry.average.den
              /\ (Len(round) = 4 /\ ValuesOf(round) = RoundValues)
                    => /\ entry.average = Quotient(3, 1)
                       /\ Len(entry.votes) = 4

\* C8: reset_votes on a revealed round appends exactly one history entry,
\* with the session, the round's label, every vote stored under that label
\* and the average sum/count of the numeric values (undefined when there is
\* none); the votes 1, 3, 5 and coffee give the average 3 and four votes.
C8_HistoryEntry == [][C8_ResetRevealed]_vars

C8_Witness ==
    /\ last = "reset_votes"
    /\ Len(voteHistory) = 1
    /\ Len(voteHistory[1].votes) = 4
    /\ ValuesOf(voteHistory[1].votes) = RoundValues
    /\ voteHistory[1].average = [defined |-> TRUE, num |-> 3, den |-> 1]
    /\ votes = <<>>

\* ---------------------------------------------------------------- C9
C9_ResetUnrevealed ==
    \A c \in Channels, S \in SessionIds :
        (/\ ResetVotes(c, S)
         /\ S \in 1..Len(sessions)
         /\ sessions[S].currentVote.present
         /\ ~sessions[S].currentVote.isRevealed)
        => /\ voteHistory' = voteHistory
           /\ \A i \in 1..Len(votes') :
                 ~(/\ votes'[i].sessionId = S
                   /\ votes'[i].voteLabel = sessions[S].currentVote.label)
           /\ ~sessions'[S].currentVote.present

\* C9: reset_votes on an open round that was not revealed leaves the history
\* as it was, deletes the round's votes and unsets currentVote.
C9_NoHistory == [][C9_ResetUnrevealed]_vars

C9_Witness ==
    /\ last = "reset_votes"
    /\ Len(out) > 0 /\ out[1].k = "snapshot"
    /\ voteHistory = <<>>
    /\ votes = <<>>
    /\ Len(sessions) = 1 /\ ~sessions[1].currentVote.present

\* --------------------------------------------------------------- C10
C10_Refused ==
    \A c \in Channels, S \in SessionIds :
        (/\ (S \notin 1..Len(sessions) \/ ~sessions[S].currentVote.present)
         /\ \E p \in VoterIds, v \in VoteValues : SubmitVote(c, S, p, v))
        => /\ UNCHANGED <<sessions, participants, votes, voteHistory, clients, ws>>
           /\ out' = <<Send(c, "error: No active vote", 0)>>

\* C10: submit_vote for a session with no open round, or for an unknown
\* session, sends the sender the error 'No active vote' and nothing else,
\* and leaves sessions, participants, votes, history and registry unchanged.
C10_NoActiveVote == [][C10_Refused]_vars

C10_Witness ==
    /\ last = "submit_vote"
    /\ out = <<SendTo(1, "error: No active vote", 0, TRUE)>>
    /\ Len(sessions) = 1 /\ ~sessions[1].currentVote.present

\* --------------------------------------------------------------- C11
C11_Rejoin ==
    \A c \in Channels, S \in SessionIds, p \in ParticipantIds :
        (/\ S \in 1..Len(sessions)
         /\ p \in DOMAIN participants
         /\ \E n \in Names : JoinSession(c, S, n, p))
        => /\ participants' = [participants EXCEPT ![p].isConnected = TRUE]
           /\ nextParticipant' = nextParticipant

\* C11: a join_session whose participantId resolves to an existing
\* participant, sent again on the same or on another socket, creates no
\* participant record: the records are the old ones, the named one with its
\* id, name, session and isHost flag and with isConnected = true.
C11_NoSecondRecord == [][C11_Rejoin]_vars

\* both sockets have joined as the host, the only participant there is; the
\* host's name is not one a join by name can resolve
C11_Witness ==
    /\ last = "join_session"
    /\ DOMAIN participants = {1}
    /\ participants[1].isHost /\ participants[1].isConnected
    /\ participants[1].name = "Host"
    /\ \A c \in Channels : ws[c].readyState = "OPEN" /\ ws[c].participantId = 1
    /\ nextParticipant = 2

\* --------------------------------------------------------------- C12
\* the error envelopes { error: ... } the handlers send
ErrorMessages ==
    {"error: Session not found", "error: No active vote",
     "error: Unauthorized", "error: Invalid message format"}

Errors(events) ==
    {i \in 1..Len(events) : events[i].k = "send" /\ events[i].msg \in ErrorMessages}

C12_Reveal ==
    \A c \in Channels, S \in SessionIds :
        (/\ S \in 1..Len(sessions)
         /\ sessions[S].currentVote.present
         /\ RevealVotes(c, S))
        => /\ sessions' = [sessions EXCEPT ![S].currentVote.isRevealed = TRUE]
           /\ sessions[S].currentVote.isRevealed => sessions' = sessions
           /\ votes' = votes
           /\ Errors(out') = {}

\* C12: reveal_votes on an open round sets isRevealed and keeps the label
\* and the votes; on a round that is already revealed it leaves the session
\* state as it is, and in neither case does it send an error.
C12_RevealIdempotent == [][C12_Reveal]_vars

\* a reveal has just run on a round with two votes, and a further reveal can
\* run from here without changing the sessions or the votes
C12_Witness ==
    /\ last = "reveal_votes"
    /\ Len(sessions) = 1
    /\ sessions[1].currentVote.present /\ sessions[1].currentVote.isRevealed
    /\ Len(votes) = 2
    /\ Errors(out) = {}
    /\ ENABLED (RevealVotes(1, 1) /\ UNCHANGED <<sessions, votes>>)

\* --------------------------------------------------------------- C13
C13_RoundStep ==
    /\ \A S \in 1..Len(sessions) :
          LET old == sessions[S].currentVote
              new == sessions'[S].currentVote
          IN /\ (~old.present /\ new.present) => last' = "start_vote"
             /\ (~old.isRevealed /\ new.isRevealed) => last' = "reveal_votes"
             /\ (old.present /\ ~new.present) => last' = "reset_votes"
             /\ last' \in {"join_session", "leave_session", "remove_participant",
                           "submit_vote", "close"} => new = old
    /\ \A S \in (Len(sessions) + 1)..Len(sessions') : sessions'[S].currentVote = NoVote

\* C13: a session starts with no round; currentVote becomes present only by
\* start_vote, isRevealed turns from false to true only by reveal_votes,
\* currentVote becomes absent only by reset_votes, and join, leave,
\* remove_participant, submit_vote and the closure of a socket leave
\* currentVote as it is.
C13_RoundMachine == [][C13_RoundStep]_vars

\* the round was opened, revealed and reset: its history entry exists, and
\* a member has joined meanwhile
C13_Witness ==
    /\ last = "reset_votes"
    /\ Len(sessions) = 1 /\ sessions[1].currentVote = NoVote
    /\ Len(voteHistory) = 1 /\ Len(voteHistory[1].votes) = 2
    /\ DOMAIN participants = {1, 2}

\* --------------------------------------------------------------- C14
C14_Fallback ==
    \A c \in Channels, S \in SessionIds, n \in Names, p \in ParticipantIds :
        (/\ S \in 1..Len(sessions)
         /\ p \notin DOMAIN participants
         /\ JoinSession(c, S, n, p))
        => LET named == {q \in ParticipantsOf(participants, S) : participants[q].name = n}
           IN IF named # {}
              THEN \E q \in named :
                      /\ participants' = [participants EXCEPT ![q].isConnected = TRUE]
                      /\ q \in DOMAIN clients' /\ clients'[q] = c
              ELSE \E q \in DOMAIN participants' \ DOMAIN participants :
                      /\ participants'[q] = [sessionId |-> S, name |-> n,
                                             isHost |-> FALSE, isConnected |-> TRUE]
                      /\ clients'[q] = c

C15_Refused ==
    \A c \in Channels, S \in SessionIds :
        (/\ S \notin 1..Len(sessions)
         /\ \E n \in Names, p \in ParticipantIds \cup {Undefined} : JoinSession(c, S, n, p))
        => /\ UNCHANGED <<sessions, participants, nextParticipant, votes, voteHistory,
                          clients, ws>>
           /\ out' = <<Send(c, "error: Session not found", 0)>>

\* C15: a join_session naming a session id that does not resolve sends the
\* sender the error 'Session not found' and nothing else: no participant is
\* created or marked connected, the registry and the sockets' bindings are
\* unchanged, and no session_update is built.
C15_SessionNotFound == [][C15_Refused]_vars

\* the refused join named session 2 while session 1 exists with a member
\* that is not connected
C15_Witness ==
    /\ last = "join_session"
    /\ out = <<SendTo(1, "error: Session not found", 0, TRUE)>>
    /\ Len(sessions) = 1
    /\ DOMAIN participants = {1, 2}
    /\ ~participants[1].isConnected /\ ~participants[2].isConnected
    /\ clients = <<>>
    /\ ws[1].participantId = Undefined

\* --------------------------------------------------------------- C16
C16_CloseFrame ==
    \A c \in Channels :
        Close(c)
        => LET bound == ws[c].participantId
           IN /\ DOMAIN participants' = DOMAIN participants
              /\ \A p \in DOMAIN participants :
                    /\ participants'[p].sessionId = participants[p].sessionId
                    /\ participants'[p].name = participants[p].name
                    /\ participants'[p].isHost = participants[p].isHost
                    /\ participants'[p].isConnected =
                          (participants[p].isConnected /\ p # bound)
              /\ clients' = [p \in DOMAIN clients \ {bound} |-> clients[p]]
              /\ UNCHANGED <<sessions, votes, voteHistory>>

C16_RecordsGoByLeaveOrRemove ==
    (\E p \in DOMAIN participants : p \notin DOMAIN participants')
        => last' \in {"leave_session", "remove_participant"}

\* C16: the closure of a socket only marks the participant bound to it as
\* disconnected and drops that participant's registry entry; it removes no
\* participant record, vote, history entry or session and changes no
\* isActive, isHost or currentVote. A participant record disappears only in
\* a leave_session or a remove_participant.
C16_CloseKeepsData == [][C16_CloseFrame /\ C16_RecordsGoByLeaveOrRemove]_vars

\* a socket bound to participant 2 has closed while the session had an open
\* round with a vote and a history entry
C16_Witness ==
    /\ last = "close"
    /\ Len(sessions) = 1 /\ sessions[1].isActive /\ sessions[1].currentVote.present
    /\ DOMAIN participants = {1, 2}
    /\ ~participants[2].isConnected /\ 2 \notin DOMAIN clients
    /\ Len(votes) = 1 /\ Len(voteHistory) = 1
    /\ Len(out) > 0 /\ out[1].k = "snapshot"

\* --------------------------------------------------------------- C17
C17_Step ==
    task.pc # "idle"
    => /\ LeaveSessionResume
       /\ (task'.pc = "idle" /\ task.sessionId \in 1..Len(sessions))
          => /\ ~sessions'[task.sessionId].isActive
             /\ ParticipantsOf(participants', task.sessionId) = {}

\* C17: from the moment a host's leave_session is taken until its handler
\* returns, every step is the next stretch of that handler: no message,
\* request or socket event is processed in between, and when the handler
\* returns the session is inactive and has no participant record.
C17_AtomicTeardown == [][C17_Step]_vars

\* the teardown is midway: the host's record is gone and the session is
\* inactive, while a participant of the session is still there, registered
\* on an open socket other than the one the host's message came on
C17_Witness ==
    /\ task.pc = "disconnect"
    /\ task.todo # <<>>
    /\ task.sessionId = 1 /\ ~sessions[1].isActive
    /\ task.participantId \notin DOMAIN participants
    /\ \E p \in ParticipantsOf(participants, 1) :
          /\ p \in DOMAIN clients
          /\ clients[p] # task.ch
          /\ ws[clients[p]].readyState = "OPEN"
          /\ ws[clients[p]].sessionId = 1

\* --------------------------------------------------------------- C18
\* C18: while a round is open and not revealed, no session_update delivered
\* to a socket carries a vote cast by a participant other than the one that
\* socket is joined as.
C18_VotesHidden ==
    \A i \in 1..Len(out) :
        (out[i].k = "send" /\ out[i].msg = "session_update" /\ out[i].open)
        => LET data == updateMessage(out[i].sid)
           IN (data.session.currentVote.present /\ ~data.session.currentVote.isRevealed)
              => \A j \in 1..Len(data.votes) :
                    LET voter == data.votes[j].participantId
                    IN \/ ws[out[i].ch].participantId = voter
                       \/ voter \in DOMAIN clients /\ clients[voter] = out[i].ch

\* --------------------------------------------------------------- C19
C19_Create ==
    \A pin \in Pins, hostName \in HostNames :
        CreateSession(pin, hostName)
        => IF \E i \in 1..Len(sessions) : sessions[i].isActive /\ sessions[i].pin = pin
           THEN /\ out' = <<Http(400, "Session PIN already exists", 0)>>
                /\ UNCHANGED <<sessions, participants>>
           ELSE LET id == Len(sessions) + 1
                IN /\ Len(sessions') = id
                   /\ SubSeq(sessions', 1, Len(sessions)) = sessions
                   /\ sessions'[id].pin = pin /\ sessions'[id].isActive
                   /\ \E host \in DOMAIN participants' \ DOMAIN participants :
                         /\ DOMAIN participants' = DOMAIN participants \cup {host}
                         /\ participants'[host] =
                               [sessionId |-> id, name |-> hostName,
                                isHost |-> TRUE, isConnected |-> FALSE]
                         /\ \A p \in DOMAIN participants : participants'[p] = participants[p]
                   /\ out' = <<Http(200, "session", id)>>

\* C19: a create-session request is refused exactly when an active session
\* holds the PIN; with any other PIN, one held only by an ended session
\* included, it creates one session and, for the host, one participant of
\* that session with isHost=true and isConnected=false, and answers with
\* the new session.
C19_CreateUnlessActivePin == [][C19_Create]_vars

\* --------------------------------------------------------------- C20
ActiveWithPin(pin) ==
    {S \in 1..Len(sessions) : sessions[S].isActive /\ sessions[S].pin = pin}

C20_Lookup ==
    \A pin \in Pins :
        JoinByPin(pin)
        => /\ UNCHANGED <<sessions, participants, nextParticipant, votes, voteHistory,
                          clients, ws>>
           /\ \A S \in SessionIds :
                 (out' = <<Http(200, "sessionId", S)>>) <=> (S \in ActiveWithPin(pin))
           /\ ActiveWithPin(pin) = {}
                 => out' = <<Http(404, "Session not found or inactive", 0)>>

\* C20: join-by-pin answers with the id of session S if and only if S is
\* active and has the given PIN, answers 404 when no active session holds
\* the PIN, and changes no state.
C20_JoinByPin == [][C20_Lookup]_vars

\* the lookup found the active session 2 while session 1 has ended
C20_Witness ==
    /\ last = "join_by_pin"
    /\ out = <<Http(200, "sessionId", 2)>>
    /\ Len(sessions) = 2
    /\ ~sessions[1].isActive /\ sessions[2].isActive

\* --------------------------------------------------------------- C21
\* a join_session that resolves to a participant registers the sending socket
C21_LastInsertWins ==
    \A c \in Channels :
        (last' = "join_session" /\ ws'[c] # ws[c])
        => /\ ws'[c].participantId \in DOMAIN clients'
           /\ clients'[ws'[c].participantId] = c

\* the entry of p goes, or p is marked disconnected, only when p leaves or is
\* removed or the registered socket itself closes; it is replaced only by a
\* join as p
C21_EntryStays ==
    \A p \in DOMAIN clients :
        LET ch == clients[p]
            dropped == \/ p \notin DOMAIN clients'
                       \/ /\ p \in DOMAIN participants /\ participants[p].isConnected
                          /\ p \in DOMAIN participants' /\ ~participants'[p].isConnected
        IN /\ dropped
              => \/ last' \in {"leave_session", "remove_participant"}
                 \/ last' = "close" /\ ws[ch].readyState # "CLOSED"
                                    /\ ws'[ch].readyState = "CLOSED"
           /\ (p \in DOMAIN clients' /\ clients'[p] # ch)
              => last' = "join_session" /\ ws'[clients'[p]].participantId = p

\* C21: the registry maps a participant id to the socket of the latest
\* successful join for that id; the entry stays, with the participant marked
\* connected, until that socket closes or the participant leaves or is
\* removed, and events on a superseded socket neither remove nor replace it.
C21_RegistryLastJoin == [][C21_LastInsertWins /\ C21_EntryStays]_vars

\* --------------------------------------------------------------- C22
C22_NonHostLeave ==
    \A c \in Channels, S \in SessionIds, P \in ParticipantIds :
        (/\ P \in ParticipantsOf(participants, S)
         /\ ~participants[P].isHost
         /\ LeaveSession(c, S, P))
        => /\ \A ch \in Channels :
                 ws'[ch].readyState # ws[ch].readyState
                 => P \in DOMAIN clients /\ clients[P] = ch
           /\ P \in DOMAIN clients => ws'[clients[P]].readyState # "OPEN"

\* C22: when a non-host participant P leaves, the only socket closed is the
\* one registered for P: no other socket is closed, and the socket registered
\* for P does not stay open.
C22_ClosesOwnChannel == [][C22_NonHostLeave]_vars

\* --------------------------------------------------------------- C23
\* the operation changed nothing, answered the sender with the one error
\* envelope and left its socket open
C23_Refused(c, msg) ==
    /\ UNCHANGED <<sessions, participants, nextParticipant, votes, voteHistory,
                   clients, ws>>
    /\ out' = <<SendTo(c, msg, 0, TRUE)>>
    /\ ws'[c].readyState = "OPEN"

C23_NoRound(S) == S \notin 1..Len(sessions) \/ ~sessions[S].currentVote.present

C23_NotHost(c) ==
    \/ ws[c].participantId \notin DOMAIN participants
    \/ ~participants[ws[c].participantId].isHost

C23_Step ==
    \A c \in Channels :
        /\ (/\ last' = "reveal_votes"
            /\ \E S \in SessionIds : C23_NoRound(S) /\ RevealVotes(c, S))
           => C23_Refused(c, "error: No active vote")
        /\ (/\ last' = "reset_votes"
            /\ \E S \in SessionIds : C23_NoRound(S) /\ ResetVotes(c, S))
           => C23_Refused(c, "error: No active vote")
        /\ (/\ last' = "submit_vote"
            /\ \E S \in SessionIds : C23_NoRound(S) /\
                  \E p \in VoterIds, v \in VoteValues : SubmitVote(c, S, p, v))
           => C23_Refused(c, "error: No active vote")
        /\ (/\ last' = "remove_participant"
            /\ \E S \in SessionIds :
                  /\ S \notin 1..Len(sessions) \/ C23_NotHost(c)
                  /\ \E T \in ParticipantIds : RemoveParticipant(c, S, T))
           => C23_Refused(c, "error: Unauthorized")
        /\ (/\ last' = "join_session"
            /\ \E S \in SessionIds \ (1..Len(sessions)) :
                  \E n \in Names, p \in ParticipantIds \cup {Undefined} :
                     JoinSession(c, S, n, p))
           => C23_Refused(c, "error: Session not found")

\* C23: a refused operation (reveal_votes, reset_votes or submit_vote with no
\* open round, remove_participant from a socket that is not a host's or for
\* an unknown session, join_session for an unknown session) leaves sessions,
\* participants, votes, history and registry as they were, sends the sender
\* one error envelope and does not close the sender's socket.
C23_RefusalChangesNothing == [][C23_Step]_vars

\* a reset was refused for want of a round, in a session that has two
\* participants, a registry entry and a history entry
C23_Witness ==
    /\ last = "reset_votes"
    /\ out = <<SendTo(1, "error: No active vote", 0, TRUE)>>
    /\ ws[1].readyState = "OPEN"
    /\ Len(sessions) = 1 /\ ~sessions[1].currentVote.present
    /\ DOMAIN participants = {1, 2}
    /\ DOMAIN clients = {2}
    /\ Len(voteHistory) = 1

\* --------------------------------------------------------------- C24
C24_JoinDelivers ==
    \A c \in Channels, S \in SessionIds :
        (/\ last' = "join_session"
         /\ S \in 1..Len(sessions)
         /\ \E n \in Names, p \in ParticipantIds \cup {Undefined} : JoinSession(c, S, n, p))
        => \E i \in 1..Len(out') :
              /\ out'[i] = SendTo(c, "session_update", S, TRUE)
              /\ \E j \in 1..(i - 1) : out'[j] = Snapshot(S)

\* C24: every join_session that names an existing session ends with a
\* session_update of that session, built from the store as the join leaves
\* it, delivered to the joining socket.
C24_JoinGetsSnapshot == [][C24_JoinDelivers]_vars

\* --------------------------------------------------------------- C25
\* the elements of a list, and a list without repetition
Range(s) == {s[i] : i \in 1..Len(s)}
NoRepeat(s) == \A i, j \in 1..Len(s) : i # j => s[i] # s[j]

\* the data equal the store's state for session S
C25_EqualsStore(data, S) ==
    LET session == sessions[S]
    IN /\ data.session = session
       /\ Range(data.participants) = ParticipantsOf(participants, S)
       /\ NoRepeat(data.participants)
       /\ Len(data.votes) =
             Cardinality({i \in 1..Len(votes) :
                             /\ session.currentVote.present
                             /\ votes[i].sessionId = S
                             /\ votes[i].voteLabel = session.currentVote.label})
       /\ \A v \in Range(data.votes) :
             /\ v \in Range(votes)
             /\ v.sessionId = S
             /\ v.voteLabel = session.currentVote.label
       /\ Len(data.voteHistory) =
             Cardinality({i \in 1..Len(voteHistory) : voteHistory[i].sessionId = S})
       /\ \A h \in Range(data.voteHistory) :
             h \in Range(voteHistory) /\ h.sessionId = S

C26_HistoryStep ==
    voteHistory' # voteHistory
    => /\ last' = "reset_votes"
       /\ Len(voteHistory') = Len(voteHistory) + 1
       /\ SubSeq(voteHistory', 1, Len(voteHistory)) = voteHistory
       /\ \E S \in 1..Len(sessions) :
             /\ sessions[S].currentVote.present
             /\ sessions[S].currentVote.isRevealed
             /\ ~sessions'[S].currentVote.present
             /\ voteHistory'[Len(voteHistory')].sessionId = S
             /\ voteHistory'[Len(voteHistory')].label = sessions[S].currentVote.label

C27_ExponentialBackoff ==
    /\ delays # <<>> => delays[1] = reconnectDelay
    /\ \A n \in 2..Len(delays) : delays[n] >= 2 * delays[n - 1]

\* --------------------------------------------------------------- C28
C28_Start ==
    \A c \in Channels, S \in SessionIds, l \in Labels :
        (/\ last' = "start_vote"
         /\ S \in 1..Len(sessions)
         /\ StartVote(c, S, l))
        => /\ sessions' = [sessions EXCEPT ![S].currentVote =
                              [present |-> TRUE, label |-> l, isRevealed |-> FALSE]]
           /\ voteHistory' = voteHistory
           /\ participants' = participants
           /\ Errors(out') = {}

\* C28: start_vote on an existing session always succeeds and sets
\* currentVote to the given label with isRevealed = false, whether there was
\* no round, an unrevealed round or a revealed round; it adds no history
\* entry and changes no participant record.
C28_StartOverwrites == [][C28_Start]_vars

\* start_vote has opened a round under L2 in a session with members and a
\* history entry, where a round under L1 was overwritten before (its vote is
\* still in the store)
C28_Witness ==
    /\ last = "start_vote"
    /\ Len(sessions) >= 1
    /\ sessions[1].currentVote = [present |-> TRUE, label |-> "L2", isRevealed |-> FALSE]
    /\ \E i \in 1..Len(votes) : votes[i].sessionId = 1 /\ votes[i].voteLabel = "L1"
    /\ \E i \in 1..Len(voteHistory) : voteHistory[i].sessionId = 1
    /\ Cardinality(ParticipantsOf(participants, 1)) = 2

\* --------------------------------------------------------------- C29
\* S is deactivated, or loses several participants at once, only in a
\* leave_session{S, H} of its own host H
C29_OnlyOwnHost ==
    \A S \in 1..Len(sessions) :
        (\/ sessions[S].isActive /\ ~sessions'[S].isActive
         \/ Cardinality(ParticipantsOf(participants, S)
                           \ ParticipantsOf(participants', S)) >= 2)
        => /\ last' = "leave_session"
           /\ \E c \in Channels, H \in ParticipantIds :
                 HostOf(S, H) /\ LeaveSession(c, S, H)

C29_ForeignLeave ==
    \A c \in Channels, S \in SessionIds, P \in DOMAIN participants :
        (/\ last' = "leave_session"
         /\ S \in 1..Len(sessions)
         /\ participants[P].sessionId # S
         /\ LeaveSession(c, S, P))
        => /\ sessions'[S].isActive = sessions[S].isActive
           /\ ParticipantsOf(participants', S) = ParticipantsOf(participants, S)

\* C29: a session is marked inactive and emptied of its participants only by
\* a leave_session of that session's own host; a leave_session that names
\* session S with the participantId of a participant of another session
\* neither deactivates S nor removes a participant of S.
C29_OwnSessionOnly == [][C29_OnlyOwnHost /\ C29_ForeignLeave]_vars

\* --------------------------------------------------------------- C30
C30_Empty ==
    \A S \in 1..Len(sessions) :
        ~sessions[S].isActive
        => /\ ParticipantsOf(participants, S) = {}
           /\ \A p \in DOMAIN clients : ws[clients[p]].sessionId # S

C30_JoinRefused ==
    \A c \in Channels, S \in 1..Len(sessions) :
        (/\ last' = "join_session"
         /\ ~sessions[S].isActive
         /\ \E n \in Names, p \in ParticipantIds \cup {Undefined} : JoinSession(c, S, n, p))
        => /\ participants' = participants
           /\ clients' = clients

\* C30: an inactive session has no participant record and no registry entry,
\* in every state from its deactivation on: a join_session that names an
\* inactive session adds no participant and registers no socket.
C30_InactiveStaysEmpty == []C30_Empty /\ [][C30_JoinRefused]_vars

\* --------------------------------------------------------------- C31
\* every vote in the store was cast in the round that is open in its session
C31_VotesOfOpenRound ==
    \A i \in 1..Len(votes) :
        LET S == votes[i].sessionId
        IN /\ S \in 1..Len(sessions)
           /\ sessions[S].currentVote.present
           /\ sessions[S].currentVote.label = votes[i].voteLabel

\* the round that start_vote has just opened is reported with no votes
C31_StartsEmpty ==
    \A i \in 1..Len(out) :
        (last = "start_vote" /\ out[i].k = "snapshot")
        => updateMessage(out[i].sid).votes = <<>>

\* C31: a round starts with an empty vote list, and every vote in the store
\* carries the label of the round that is open in its session: no vote
\* outlives the end or the overwrite of the round it was cast in, also when a
\* later round uses the same label again.
C31_RoundStartsEmpty == C31_VotesOfOpenRound /\ C31_StartsEmpty

\* --------------------------------------------------------------- C32
\* the votes reported for the open round of S are votes of participants of S
C32_VotersAreMembers ==
    \A S \in 1..Len(sessions) :
        \A v \in Range(updateMessage(S).votes) :
            v.participantId \in ParticipantsOf(participants, S)

\* a history entry written at reset holds votes of participants only
C32_HistoryOfMembers ==
    Len(voteHistory') > Len(voteHistory)
    => LET entry == voteHistory'[Len(voteHistory')]
       IN \A v \in Range(entry.votes) :
             v.participantId \in ParticipantsOf(participants, entry.sessionId)

\* C32: every vote of a session's open round is the vote of a current
\* participant of that session: a submit_vote for any other participantId
\* stores nothing, and the vote of a participant that has left or was
\* removed is neither in the round's vote list nor in the history entry and
\* average written at reset.
C32_VotesOfParticipants == []C32_VotersAreMembers /\ [][C32_HistoryOfMembers]_vars

\* --------------------------------------------------------------- C33
C33_NonHostChangesNothing ==
    \A c \in Channels, S \in 1..Len(sessions) :
        (/\ last' \in {"start_vote", "reveal_votes", "reset_votes"}
         /\ ~HostOf(S, ws[c].participantId)
         /\ \/ \E l \in Labels : StartVote(c, S, l)
            \/ RevealVotes(c, S)
            \/ ResetVotes(c, S))
        => /\ sessions' = sessions
           /\ votes' = votes
           /\ voteHistory' = voteHistory

\* C33: start_vote, reveal_votes and reset_votes change a session's
\* currentVote only when the sending socket is bound to the host of that
\* session; sent from a socket bound to a non-host, or to nobody, they change
\* nothing.
C33_HostControlsRound == [][C33_NonHostChangesNothing]_vars

\* --------------------------------------------------------------- C34
C34_Frozen ==
    \A S \in 1..Len(sessions) :
        LET round == sessions[S].currentVote
        IN (/\ round.present /\ round.isRevealed
            /\ last' # "reset_votes")
           => getVotesBySession(votes', S, round.label)
                 = getVotesBySession(votes, S, round.label)

\* C34: from reveal_votes to the following reset_votes no vote of the
\* revealed round is added, replaced or removed, so that the history entry
\* written at reset holds the votes that were in the store at reveal time.
C34_RevealedVotesFrozen == [][C34_Frozen]_vars

\* --------------------------------------------------------------- C35
\* C35: a participant is marked connected exactly when the registry holds an
\* entry for it whose socket is open.
C35_ConnectedIffRegistered ==
    \A p \in DOMAIN participants :
        participants[p].isConnected
            <=> (p \in DOMAIN clients /\ ws[clients[p]].readyState = "OPEN")

C37_UniqueNames ==
    \A p, q \in DOMAIN participants :
        (p # q /\ participants[p].sessionId = participants[q].sessionId)
        => participants[p].name # participants[q].name

\* --------------------------------------------------------------- C38
\* from disconnect() until the page connects again, no reconnection is
\* scheduled and no WebSocket is created
C38_StaysDisconnected ==
    (~mounted /\ ~mounted')
    => /\ Len(timers') <= Len(timers)
       /\ Len(webSockets') = Len(webSockets)

\* C38: after disconnect() the client opens no new connection: the close it
\* started does not run attemptReconnect, and a reconnect timer that is
\* pending does not open a socket.
C38_DisconnectIsFinal == [][C38_StaysDisconnected]_vars

\* --------------------------------------------------------------- C39
\* the counter is within 0..maxReconnectAttempts and counts the
\* reconnections scheduled since the last successful open
C39_Bounded ==
    /\ reconnectAttempts \in 0..maxReconnectAttempts
    /\ Len(delays) = reconnectAttempts

\* a WebSocket opens in this step
C39_Opens ==
    \E k \in 1..Len(webSockets) :
        webSockets[k] = "CONNECTING" /\ webSockets'[k] = "OPEN"

\* a WebSocket is closed in this step
C39_Closes ==
    \E k \in 1..Len(webSockets) :
        webSockets[k] # "CLOSED" /\ webSockets'[k] = "CLOSED"

\* an open resets the counter; a close after maxReconnectAttempts
\* reconnections schedules no further one
C39_ResetAndStop ==
    /\ C39_Opens => reconnectAttempts' = 0
    /\ (C39_Closes /\ reconnectAttempts = maxReconnectAttempts)
       => (timers' = timers /\ Len(webSockets') = Len(webSockets))

\* C39: client reconnection terminates: without a successful open in
\* between, at most maxReconnectAttempts (5) reconnections are attempted and
\* then none; reconnectAttempts stays within 0..5 and every successful open
\* resets it to 0.
C39_ReconnectionTerminates == []C39_Bounded /\ [][C39_ResetAndStop]_vars

\* the first connection and five reconnections have all failed, and nothing
\* is scheduled any more
C39_Witness ==
    /\ mounted
    /\ reconnectAttempts = maxReconnectAttempts
    /\ Len(webSockets) = maxReconnectAttempts + 1
    /\ \A k \in 1..Len(webSockets) : webSockets[k] = "CLOSED"
    /\ timers = <<>>

\* --------------------------------------------------------------- C40
\* the handler call that a frame of each kind is to end in
C40_Dispatched(m, call) ==
    /\ m.type = JsString("session_update")
       => call = [handler |-> "session_update", data |-> m.data]
    /\ m.type = JsString("session_ended")
       => call = [handler |-> "session_ended", data |-> m.message]
    /\ m.error # JsUndefined
       => call = [handler |-> "error", data |-> m.error]

\* a frame that arrives once the three handlers are registered
C40_Received ==
    /\ {"session_update", "error", "session_ended"} \subseteq messageHandlers
    /\ <<message, invoked>>' # <<message, invoked>>

\* C40: every kind of message the server sends reaches the handler
\* registered for it with the content that was sent: a session_update the
\* 'session_update' handler with the snapshot, a session_ended notice the
\* 'session_ended' handler with its message text, an error envelope the
\* 'error' handler with the error.
C40_EveryKindDispatched ==
    [][C40_Received => C40_Dispatched(message', invoked')]_vars
====
